---- MODULE Spec2Model ----
(***************************************************************************)
(* Model of ngi_pipeline/engines/sarek/models/workflow.py: the Sarek       *)
(* workflow steps, their command-line builder and the report discovery of  *)
(* the preprocessing step.                                                 *)
(*                                                                         *)
(* A Python string is a sequence of tokens (TLA+ strings); "/", " " and    *)
(* "," are tokens of their own, so joining, formatting and substitution    *)
(* are computed on the text.  A Python value is a record with a type tag.  *)
(* A dict is a sequence of entries with distinct keys: its iteration order *)
(* is the order of the sequence.  Directory paths carry no trailing        *)
(* separator.  The semantics of filter() are those of Python 2, the        *)
(* interpreter the module is written for (filter returns a list).          *)
(***************************************************************************)
EXTENDS Integers, Sequences, FiniteSets, TLC

VARIABLES
    phase,        \* "new" before __init__ has run, "constructed" after
    variant,      \* the class of the step
    kwargs,       \* the keyword arguments __init__ was called with
    nf_path,      \* self.nf_path
    sarek_path,   \* self.sarek_path
    sarek_args,   \* self.sarek_args
    last,         \* outcome of the latest command_line() call
    prev,         \* outcome of the command_line() call before it
    report_query, \* the arguments of the report_files() call
    report        \* outcome of the report_files() call

vars == <<phase, variant, kwargs, nf_path, sarek_path, sarek_args, last, prev,
          report_query, report>>

step_vars == <<phase, variant, kwargs, nf_path, sarek_path, sarek_args, last, prev>>
report_vars == <<report_query, report>>

----------------------------------------------------------------------------
(* Bounds of the explored inputs *)

MaxArgs == 2
MaxTools == 3
MaxListing == 3

----------------------------------------------------------------------------
(* Python values *)

PyStr(s) == [t |-> "str", n |-> 0, s |-> s, l |-> <<>>]
PyInt(n) == [t |-> "int", n |-> n, s |-> <<>>, l |-> <<>>]
PyBool(b) == [t |-> "bool", n |-> IF b THEN 1 ELSE 0, s |-> <<>>, l |-> <<>>]
PyList(l) == [t |-> "list", n |-> 0, s |-> <<>>, l |-> l]
PyNone == [t |-> "none", n |-> 0, s |-> <<>>, l |-> <<>>]

\* bool(v)
Truthy(v) ==
    CASE v.t = "str" -> v.s # <<>>
      [] v.t = "int" -> v.n # 0
      [] v.t = "bool" -> v.n = 1
      [] v.t = "list" -> v.l # <<>>
      [] OTHER -> FALSE

\* str(v), as string.Template applies it to a substituted value
Str(v) ==
    CASE v.t = "str" -> v.s
      [] v.t = "int" -> <<ToString(v.n)>>
      [] v.t = "bool" -> IF v.n = 1 THEN <<"True">> ELSE <<"False">>
      [] v.t = "none" -> <<"None">>
      [] OTHER -> <<"[">> \o v.l \o <<"]">>

\* ",".join(l)
RECURSIVE Join(_)
Join(l) ==
    IF l = <<>> THEN <<>>
    ELSE IF Len(l) = 1 THEN <<l[1]>>
    ELSE <<l[1], ",">> \o Join(Tail(l))

\* os.path.join(a, b) for a relative b
PathJoin(a, b) ==
    IF a = <<>> THEN b
    ELSE IF a[Len(a)] = "/" THEN a \o b
    ELSE a \o <<"/">> \o b

----------------------------------------------------------------------------
(* Dicts: sequences of entries with distinct keys *)

Entry(k, v) == [k |-> k, v |-> v]

Keys(d) == {d[i].k : i \in 1..Len(d)}

\* d.get(name)
Get(d, name) ==
    IF name \in Keys(d)
    THEN LET i == CHOOSE j \in 1..Len(d) : d[j].k = name IN d[i].v
    ELSE PyNone

KeySeq(d) == [i \in 1..Len(d) |-> d[i].k]

\* The dicts over the entries of the function f (a mapping without order):
\* one per iteration order.
DictsOf(f) ==
    LET n == Cardinality(DOMAIN f)
    IN {[i \in 1..n |-> Entry(o[i], f[o[i]])] :
            o \in {p \in [1..n -> DOMAIN f] : \A i, j \in 1..n : p[i] = p[j] => i = j}}

----------------------------------------------------------------------------
(* Outcomes of a call: a returned string or a raised exception *)

Returned(s) == [kind |-> "ok", s |-> s]
Raised(e) == [kind |-> e, s |-> <<>>]
NotCalled == [kind |-> "none", s |-> <<>>]

----------------------------------------------------------------------------
(* The classes *)

Classes ==
    {"SarekWorkflowStep", "SarekPreprocessingStep", "SarekGermlineVCStep",
     "SarekAnnotateStep", "SarekMultiQCStep"}

ConcreteClasses == Classes \ {"SarekWorkflowStep"}

Range(q) == {q[i] : i \in 1..Len(q)}

\* cls.available_tools
available_tools(cls) ==
    CASE cls = "SarekGermlineVCStep" -> <<"haplotypecaller", "strelka", "manta">>
      [] cls = "SarekAnnotateStep" -> <<"snpeff", "vep">>
      [] OTHER -> <<>>

\* sarek_step with the override of SarekMultiQCStep left out
sarek_step_unset(cls) ==
    CASE cls = "SarekPreprocessingStep" -> Returned(<<"main.nf">>)
      [] cls = "SarekGermlineVCStep" -> Returned(<<"germlineVC.nf">>)
      [] cls = "SarekAnnotateStep" -> Returned(<<"annotate.nf">>)
      [] OTHER -> Raised("NotImplementedError")

\* self.sarek_step()
sarek_step(cls) ==
    CASE cls = "SarekPreprocessingStep" -> Returned(<<"main.nf">>)
      [] cls = "SarekGermlineVCStep" -> Returned(<<"germlineVC.nf">>)
      [] cls = "SarekAnnotateStep" -> Returned(<<"annotate.nf">>)
      [] cls = "SarekMultiQCStep" -> Returned(<<"runMultiQC.nf">>)
      [] OTHER -> Raised("NotImplementedError")

\* valid_tools filtering the available tools against the given ones
valid_tools_swapped(cls, tools) ==
    LET ok(t) == t \in Range(tools)
    IN SelectSeq(available_tools(cls), ok)

\* self.valid_tools(tools)
valid_tools(cls, tools) ==
    LET ok(t) == t \in Range(available_tools(cls))
    IN SelectSeq(tools, ok)

----------------------------------------------------------------------------
(* __init__ : the three statements that build self.sarek_args.  The        *)
(* intermediate mappings are functions from key to value; the order of the *)
(* final dict is fixed when it is built.                                   *)

\* the filter naming the constructor's parameters instead of the fields
FilterFixed_params(kw) ==
    [k \in (DOMAIN kw) \ {"path_to_nextflow", "path_to_sarek"} |-> kw[k]]

\* {k: v for k, v in sarek_args.items() if k not in ["nf_path", "sarek_path"]}
FilterFixed(kw) ==
    [k \in (DOMAIN kw) \ {"nf_path", "sarek_path"} |-> kw[k]]

\* tools filtered only when the keyword was supplied
SetTools_if_given(cls, args) ==
    [k \in DOMAIN args |->
        IF k = "tools" THEN PyList(valid_tools(cls, args[k].l)) ELSE args[k]]

\* self.sarek_args["tools"] = self.valid_tools(self.sarek_args.get("tools", []))
SetTools(cls, args) ==
    LET given == IF "tools" \in DOMAIN args THEN args["tools"] ELSE PyList(<<>>)
    IN [k \in (DOMAIN args) \cup {"tools"} |->
            IF k = "tools" THEN PyList(valid_tools(cls, given.l)) ELSE args[k]]

\* the lists joined without the separator
ExpandLists_no_comma(args) ==
    [k \in DOMAIN args |->
        IF args[k].t = "list" THEN PyStr(args[k].l) ELSE args[k]]

\* {k: v if type(v) is not list else ",".join(v) for k, v in self.sarek_args.items()}
ExpandLists(args) ==
    [k \in DOMAIN args |->
        IF args[k].t = "list" THEN PyStr(Join(args[k].l)) ELSE args[k]]

InitArgs(cls, kw) == ExpandLists(SetTools(cls, FilterFixed(kw)))

----------------------------------------------------------------------------
(* command_line *)

\* A template is a sequence of literal tokens and ${name} placeholders.
Lit(x) == [ph |-> FALSE, x |-> x]
Ph(x) == [ph |-> TRUE, x |-> x]

single_hyphen_args == <<"config", "profile">>

\* self._append_argument(base_string, name, hyphen)
AppendArgument(args, base_string, name, hyphen) ==
    IF ~Truthy(Get(args, name))
    THEN base_string
    ELSE base_string \o <<Lit(" "), Lit(hyphen), Lit(name), Lit(" "), Ph(name)>>

\* for argument_name in names: template_string = self._append_argument(...)
RECURSIVE AppendAll(_, _, _, _)
AppendAll(args, base_string, names, hyphen) ==
    IF names = <<>> THEN base_string
    ELSE AppendAll(args, AppendArgument(args, base_string, names[1], hyphen),
                   Tail(names), hyphen)

\* filter(lambda n: n not in single_hyphen_args, self.sarek_args.keys())
OtherNames(args) ==
    LET other(n) == n \notin Range(single_hyphen_args)
    IN SelectSeq(KeySeq(args), other)

RECURSIVE Flatten(_)
Flatten(q) == IF q = <<>> THEN <<>> ELSE q[1] \o Flatten(Tail(q))

\* Template(template).substitute(**m): KeyError on a placeholder without value
Substitute(template, m) ==
    IF \E i \in 1..Len(template) : template[i].ph /\ template[i].x \notin DOMAIN m
    THEN Raised("KeyError")
    ELSE Returned(Flatten([i \in 1..Len(template) |->
            IF template[i].ph THEN Str(m[template[i].x]) ELSE <<template[i].x>>]))

\* the keywords the call of substitute names itself
SubstituteKeywords == {"nf_path", "sarek_step_path"}

\* SarekWorkflowStep.command_line, on a step of class cls
command_line(cls, nf, sp, args) ==
    LET base == <<Ph("nf_path"), Lit(" "), Lit("run"), Lit(" "), Ph("sarek_step_path")>>
        short == AppendAll(args, base, single_hyphen_args, "-")
        template_string == AppendAll(args, short, OtherNames(args), "--")
        step == sarek_step(cls)
    IN  IF step.kind # "ok" THEN step
        ELSE IF Keys(args) \cap SubstituteKeywords # {}
        THEN Raised("TypeError")   \* a keyword given twice in one call
        ELSE Substitute(template_string,
                [k \in SubstituteKeywords \cup Keys(args) |->
                    IF k = "nf_path" THEN PyStr(nf)
                    ELSE IF k = "sarek_step_path" THEN PyStr(PathJoin(sp, step.s))
                    ELSE Get(args, k)])

----------------------------------------------------------------------------
(* The inputs explored *)

NfPaths == {<<"nextflow">>}
SarekPaths == {<<"opt", "/", "sarek">>}

\* tool names of the germline step, with one no step knows
ToolNames == {"haplotypecaller", "manta", "bogus"}

\* tool lists for the annotation step
AnnotateToolLists ==
    {<<"vep">>, <<"snpeff", "snpeff">>, <<"vep", "bogus", "snpeff">>}

RECURSIVE SeqsUpTo(_, _)
SeqsUpTo(S, n) ==
    IF n = 0 THEN {<<>>}
    ELSE SeqsUpTo(S, n - 1) \cup
         {Append(q, x) : q \in {r \in SeqsUpTo(S, n - 1) : Len(r) = n - 1}, x \in S}

ArgNames ==
    {"tools", "config", "profile", "nf_path", "sarek_path", "sarek_step_path",
     "genome", "count"}

ValuesOf(name) ==
    CASE name = "tools" ->
            {PyList(q) : q \in SeqsUpTo(ToolNames, MaxTools) \cup AnnotateToolLists}
      [] name = "config" -> {PyStr(<<"foo.conf">>), PyStr(<<>>)}
      [] name = "profile" -> {PyStr(<<"standard">>), PyBool(FALSE)}
      [] name = "nf_path" -> {PyStr(<<"other">>)}
      [] name = "sarek_path" -> {PyList(<<"a", "b">>)}
      [] name = "sarek_step_path" -> {PyStr(<<"other">>), PyInt(0)}
      [] name = "genome" -> {PyStr(<<"GRCh38">>), PyList(<<"a", "b">>)}
      [] OTHER -> {PyInt(0), PyInt(7)}

NoArgs == [x \in {} |-> PyNone]

RECURSIVE Assignments(_)
Assignments(K) ==
    IF K = {} THEN {NoArgs}
    ELSE LET k == CHOOSE x \in K : TRUE
         IN {[x \in (DOMAIN f) \cup {k} |-> IF x = k THEN v ELSE f[x]] :
                f \in Assignments(K \ {k}), v \in ValuesOf(k)}

KwargsInputs ==
    UNION {Assignments(K) : K \in {X \in SUBSET ArgNames : Cardinality(X) <= MaxArgs}}

----------------------------------------------------------------------------
(* report_files *)

\* a test for the suffix anywhere in the name
EndsWith_anywhere(name, suffix) == suffix \in Range(name)

\* name.endswith(suffix)
EndsWith(name, suffix) == name # <<>> /\ name[Len(name)] = suffix

NoReport == [kind |-> "none", cls |-> "", msg |-> <<>>, files |-> <<>>]
Reports(files) == [kind |-> "ok", cls |-> "", msg |-> <<>>, files |-> files]
ParserException(cls, msg) ==
    [kind |-> "ParserException", cls |-> cls, msg |-> msg, files |-> <<>>]

\* cls.report_files(analysis_sample), the directory MarkDuplicates listing `listing`
report_files(cls, analysis_path, sampleid, listing) ==
    IF cls # "SarekPreprocessingStep"
    THEN Reports(<<>>)
    ELSE
    LET report_dir == PathJoin(analysis_path, <<"Reports">>)
        markdups_dir == PathJoin(report_dir, <<"MarkDuplicates">>)
        metric(f) == EndsWith(f, ".metrics")
        metric_files == SelectSeq(listing, metric)
        \* metric_files.pop() takes the last element and leaves the others
        markdups_metrics_file == metric_files[Len(metric_files)]
        left == SubSeq(metric_files, 1, Len(metric_files) - 1)
    IN  IF metric_files = <<>>
        THEN ParserException(cls,
                <<"no metrics file for MarkDuplicates found for sample ", sampleid, " in ">>
                \o markdups_dir)
        ELSE IF left # <<>>
        THEN ParserException(cls,
                <<"multiple metrics files for MarkDuplicates found for sample ", sampleid,
                  " in ">> \o markdups_dir)
        ELSE Reports(<<
                [parser |-> "QualiMapParser",
                 path |-> PathJoin(PathJoin(PathJoin(report_dir, <<"bamQC">>), <<sampleid>>),
                                   <<"genome_results.txt">>)],
                [parser |-> "PicardMarkDuplicatesParser",
                 path |-> PathJoin(markdups_dir, markdups_metrics_file)]>>)

Samples ==
    {[path |-> <<"proj", "/", "S1">>, sampleid |-> "S1"],
     [path |-> <<"data">>, sampleid |-> "S2"]}

FileNames ==
    {<<"a", ".metrics">>, <<"b", ".metrics">>, <<".metrics">>, <<"a", ".txt">>,
     <<"c", ".metrics", ".bak">>}

\* os.listdir: the entries of a directory, each once, in any order
Listings ==
    {q \in SeqsUpTo(FileNames, MaxListing) : \A i, j \in 1..Len(q) : q[i] = q[j] => i = j}

----------------------------------------------------------------------------
(* The life of one step *)

StepInit ==
    /\ phase = "new"
    /\ variant = "SarekWorkflowStep"
    /\ kwargs = NoArgs
    /\ nf_path = <<>>
    /\ sarek_path = <<>>
    /\ sarek_args = <<>>
    /\ last = NotCalled
    /\ prev = NotCalled

Init ==
    /\ StepInit
    /\ report_query = [cls |-> "SarekWorkflowStep", path |-> <<>>, sampleid |-> "",
                       listing |-> <<>>]
    /\ report = NoReport

\* cls(path_to_nextflow, path_to_sarek, **kw)
Construct ==
    /\ phase = "new"
    /\ \E cls \in Classes, nf \in NfPaths, sp \in SarekPaths, kw \in KwargsInputs :
         \E d \in DictsOf(InitArgs(cls, kw)) :
            /\ variant' = cls
            /\ kwargs' = kw
            /\ nf_path' = nf
            /\ sarek_path' = sp
            /\ sarek_args' = d
    /\ phase' = "constructed"
    /\ UNCHANGED <<last, prev, report_vars>>

\* command_line taking the rendered arguments out of the mapping (pop for get)
CommandLine_popping ==
    /\ phase = "constructed"
    /\ last' = command_line(variant, nf_path, sarek_path, sarek_args)
    /\ prev' = last
    /\ sarek_args' = LET falsy(e) == ~Truthy(e.v) IN SelectSeq(sarek_args, falsy)
    /\ UNCHANGED <<phase, variant, kwargs, nf_path, sarek_path, report_vars>>

\* step.command_line()
CommandLine ==
    /\ phase = "constructed"
    /\ last' = command_line(variant, nf_path, sarek_path, sarek_args)
    /\ prev' = last
    /\ UNCHANGED <<phase, variant, kwargs, nf_path, sarek_path, sarek_args, report_vars>>

Next == Construct \/ CommandLine

Spec == Init /\ [][Next]_vars

\* The arguments of one report_files call: the class, the sample and what
\* os.listdir returns for its MarkDuplicates directory.
InitReport ==
    /\ StepInit
    /\ report_query \in [cls : Classes, path : {x.path : x \in Samples},
                         sampleid : {x.sampleid : x \in Samples}, listing : Listings]
    /\ \E x \in Samples : x.path = report_query.path /\ x.sampleid = report_query.sampleid
    /\ report = NoReport

\* cls.report_files(analysis_sample)
ReportFiles ==
    /\ report = NoReport
    /\ report' = report_files(report_query.cls, report_query.path, report_query.sampleid,
                              report_query.listing)
    /\ UNCHANGED <<step_vars, report_query>>

NextReport == ReportFiles

SpecReport == InitReport /\ [][NextReport]_vars

----------------------------------------------------------------------------
(* What the properties below speak of *)

Constructed == phase = "constructed"
Called == last.kind # "none"

FixedPathNames == {"nf_path", "sarek_path"}

\* the tools keyword as supplied to the constructor (none: the empty list)
SuppliedTools == IF "tools" \in DOMAIN kwargs THEN kwargs["tools"].l ELSE <<>>

\* the table of the variants: permitted tools and script
WhitelistOf(cls) ==
    CASE cls = "SarekGermlineVCStep" -> {"haplotypecaller", "strelka", "manta"}
      [] cls = "SarekAnnotateStep" -> {"snpeff", "vep"}
      [] OTHER -> {}

ScriptOf(cls) ==
    CASE cls = "SarekPreprocessingStep" -> "main.nf"
      [] cls = "SarekGermlineVCStep" -> "germlineVC.nf"
      [] cls = "SarekAnnotateStep" -> "annotate.nf"
      [] OTHER -> "runMultiQC.nf"

RECURSIVE KeepMembers(_, _)
KeepMembers(q, S) ==
    IF q = <<>> THEN <<>>
    ELSE (IF q[1] \in S THEN <<q[1]>> ELSE <<>>) \o KeepMembers(Tail(q), S)

\* the command line carries a flag for name, with the given hyphens
HasFlagWith(s, hyphen, name) ==
    \E i \in 1..(Len(s) - 1) : s[i] = hyphen /\ s[i + 1] = name

HasFlag(s, name) == HasFlagWith(s, "-", name) \/ HasFlagWith(s, "--", name)

Without(d, name) ==
    LET keep(e) == e.k # name
    IN SelectSeq(d, keep)

FlagText(hyphen, name, v) == <<" ", hyphen, name, " ">> \o Str(v)

ShortFlag(name) ==
    IF Truthy(Get(sarek_args, name)) THEN FlagText("-", name, Get(sarek_args, name))
    ELSE <<>>

RECURSIVE LongFlags(_)
LongFlags(d) ==
    IF d = <<>> THEN <<>>
    ELSE (IF d[1].k \notin {"config", "profile"} /\ Truthy(d[1].v)
          THEN FlagText("--", d[1].k, d[1].v) ELSE <<>>) \o LongFlags(Tail(d))

CommandPrefix ==
    nf_path \o <<" ", "run", " ">> \o sarek_path \o <<"/", ScriptOf(variant)>>

ExpectedCommandLine ==
    CommandPrefix \o ShortFlag("config") \o ShortFlag("profile") \o LongFlags(sarek_args)

----------------------------------------------------------------------------
(* C1: for every constructed concrete step, command_line() returns         *)
(* "<nf_path> run <sarek_path>/<script>", then "-config <value>" if config *)
(* is truthy, then "-profile <value>" if profile is truthy, then one       *)
(* "--<name> <value>" for every other truthy argument in the iteration     *)
(* order of the arguments mapping.                                         *)
C1_CommandLineFormat ==
    (Constructed /\ variant \in ConcreteClasses /\ Called)
        => last = Returned(ExpectedCommandLine)

\* The strings command_line() does return have the format of C1.
ReturnedCommandLineFormat ==
    (Constructed /\ last.kind = "ok") => last.s = ExpectedCommandLine

(* C2: for every argument name whose stored value is falsy or absent, the  *)
(* command line carries neither flag nor value for the name, and the       *)
(* outcome of command_line() is the one of the step without the argument.  *)
C2_FalsyArgumentsOmitted ==
    (Constructed /\ Called) =>
        \A name \in ArgNames :
            ~Truthy(Get(sarek_args, name)) =>
                /\ ~HasFlag(last.s, name)
                /\ last = command_line(variant, nf_path, sarek_path,
                                       Without(sarek_args, name))

\* C2 holds of every argument name that is no keyword of the substitute call.
FalsyArgumentsOmittedElsewhere ==
    (Constructed /\ Called) =>
        \A name \in ArgNames \ SubstituteKeywords :
            ~Truthy(Get(sarek_args, name)) =>
                /\ ~HasFlag(last.s, name)
                /\ last = command_line(variant, nf_path, sarek_path,
                                       Without(sarek_args, name))

(* C3: after construction arguments["tools"] is the comma-joined input     *)
(* tool list filtered to the members of the variant's whitelist, order and *)
(* duplicates preserved; empty for a variant with an empty whitelist; the  *)
(* germline step with haplotypecaller, bogus, manta stores                 *)
(* "haplotypecaller,manta".                                                *)
C3_ToolsFiltered ==
    Constructed =>
        /\ Get(sarek_args, "tools")
              = PyStr(Join(KeepMembers(SuppliedTools, WhitelistOf(variant))))
        /\ WhitelistOf(variant) = {} => Get(sarek_args, "tools") = PyStr(<<>>)
        /\ (variant = "SarekGermlineVCStep"
                /\ SuppliedTools = <<"haplotypecaller", "bogus", "manta">>)
              => Get(sarek_args, "tools") = PyStr(<<"haplotypecaller", ",", "manta">>)

C3_Witness ==
    /\ Constructed
    /\ variant = "SarekGermlineVCStep"
    /\ SuppliedTools = <<"haplotypecaller", "bogus", "manta">>

(* C4: after construction, and after any number of command_line() calls,   *)
(* the arguments mapping has neither nf_path nor sarek_path as a key; the  *)
(* two paths are the ones passed positionally.                             *)
C4_NoFixedPathKeys ==
    Constructed =>
        /\ Keys(sarek_args) \cap FixedPathNames = {}
        /\ nf_path \in NfPaths
        /\ sarek_path \in SarekPaths

C4_Witness ==
    /\ Constructed
    /\ FixedPathNames \subseteq DOMAIN kwargs
    /\ prev.kind # "none"

(* C5 as stated: every keyword argument the mapping keeps that was passed  *)
(* as a list is stored as the join of that list with ",", every other      *)
(* value is stored unchanged, and no stored value is a list.               *)
C5_AsStated ==
    Constructed =>
        /\ \A k \in (DOMAIN kwargs) \ FixedPathNames :
              Get(sarek_args, k) = IF kwargs[k].t = "list"
                                   THEN PyStr(Join(kwargs[k].l)) ELSE kwargs[k]
        /\ \A i \in 1..Len(sarek_args) : sarek_args[i].v.t # "list"

(* C5, amended: every keyword argument the mapping keeps, other than       *)
(* tools, is stored as the join of its list with "," when it is a list and *)
(* unchanged otherwise; tools is stored as the join of the list filtered   *)
(* to the whitelist; no stored value is a list.                            *)
C5_ListsJoined ==
    Constructed =>
        /\ \A k \in (DOMAIN kwargs) \ (FixedPathNames \cup {"tools"}) :
              Get(sarek_args, k) = IF kwargs[k].t = "list"
                                   THEN PyStr(Join(kwargs[k].l)) ELSE kwargs[k]
        /\ Get(sarek_args, "tools")
              = PyStr(Join(KeepMembers(SuppliedTools, WhitelistOf(variant))))
        /\ \A i \in 1..Len(sarek_args) : sarek_args[i].v.t # "list"

C5_Witness ==
    /\ Constructed
    /\ DOMAIN kwargs = {"genome", "count"}
    /\ kwargs["genome"] = PyList(<<"a", "b">>)
    /\ kwargs["count"] = PyInt(0)
    /\ Get(sarek_args, "genome") = PyStr(<<"a", ",", "b">>)

(* C6: a command_line() call leaves nf_path, sarek_path and the arguments  *)
(* mapping unchanged, and its outcome is the outcome of the call before.   *)
C6_Idempotent ==
    [][Constructed =>
          /\ nf_path' = nf_path
          /\ sarek_path' = sarek_path
          /\ sarek_args' = sarek_args
          /\ Called => last' = last]_vars

C6_Witness == prev.kind = "ok" /\ last.kind = "ok" /\ Len(sarek_args) = 3

(* C8: the base step can be constructed, and every command_line() call on  *)
(* it raises NotImplementedError and returns no string; a concrete variant *)
(* never raises it, and a string it returns starts with its own script.    *)
C8_UnimplementedStep ==
    (Constructed /\ Called) =>
        /\ variant = "SarekWorkflowStep"
              => last = Raised("NotImplementedError")
        /\ variant \in ConcreteClasses =>
              /\ last.kind # "NotImplementedError"
              /\ last.kind = "ok" =>
                    /\ Len(last.s) >= Len(CommandPrefix)
                    /\ SubSeq(last.s, 1, Len(CommandPrefix)) = CommandPrefix

C8_Witness ==
    /\ Constructed
    /\ variant = "SarekWorkflowStep"
    /\ "config" \in DOMAIN kwargs
    /\ last.kind = "NotImplementedError"

(* C9: for a concrete variant constructed with any keyword arguments,      *)
(* command_line() raises no error and returns a string in which every      *)
(* argument with a truthy value is rendered.                               *)
C9_SubstitutionNeverFails ==
    (Constructed /\ variant \in ConcreteClasses /\ Called) =>
        /\ last.kind = "ok"
        /\ \A k \in Keys(sarek_args) :
              Truthy(Get(sarek_args, k)) => HasFlag(last.s, k)

\* Without a keyword named sarek_step_path, C9 holds.
SubstitutionFailsOnlyOnKeyword ==
    (Constructed /\ variant \in ConcreteClasses /\ Called) =>
        /\ last.kind \in {"ok", "TypeError"}
        /\ last.kind = "TypeError" <=> "sarek_step_path" \in DOMAIN kwargs
        /\ last.kind = "ok" =>
              \A k \in Keys(sarek_args) :
                  Truthy(Get(sarek_args, k)) => HasFlag(last.s, k)

(* C10: after construction the arguments mapping always has the key tools; *)
(* a command line carries --tools exactly if a supplied tool is in the     *)
(* variant's whitelist, and the value lists whitelisted names only.        *)
C10_ToolsFlag ==
    Constructed =>
        /\ "tools" \in Keys(sarek_args)
        /\ last.kind = "ok" =>
              /\ HasFlagWith(last.s, "--", "tools")
                    <=> \E i \in 1..Len(SuppliedTools) :
                            SuppliedTools[i] \in WhitelistOf(variant)
              /\ ~HasFlagWith(last.s, "-", "tools")
              /\ \A i \in 1..(Len(last.s) - 1) :
                    (last.s[i] = "--" /\ last.s[i + 1] = "tools") =>
                        /\ Len(last.s) >= i + 3
                        /\ \A j \in (i + 3)..Len(last.s) :
                              (\A m \in (i + 3)..j : last.s[m] # " ")
                                  => last.s[j] \in WhitelistOf(variant) \cup {","}

C10_Witness ==
    /\ Constructed
    /\ variant = "SarekGermlineVCStep"
    /\ SuppliedTools = <<"bogus", "manta", "haplotypecaller">>
    /\ last.kind = "ok"
    /\ HasFlagWith(last.s, "--", "tools")

----------------------------------------------------------------------------
(* Report discovery *)

Reported == report.kind # "none"

\* the positions of the listing whose entry ends in ".metrics"
MetricsAt(listing) ==
    {i \in 1..Len(listing) : listing[i][Len(listing[i])] = ".metrics"}

ExpectedMarkDupsDir == report_query.path \o <<"/", "Reports", "/", "MarkDuplicates">>

(* C7: preprocessing report discovery returns, for a listing with exactly  *)
(* one entry ending in ".metrics", the quality-mapping descriptor and then *)
(* the duplicate-marking descriptor of that entry; with no such entry it   *)
(* raises the "no metrics file" ParserException, with two or more the      *)
(* "multiple metrics files" one, both naming sample id and directory and   *)
(* carrying no descriptor; the other entries do not affect the outcome.    *)
C7_ReportDiscovery ==
    (Reported /\ report_query.cls = "SarekPreprocessingStep") =>
        LET at == MetricsAt(report_query.listing)
            n == Cardinality(at)
        IN  /\ n = 1 =>
                  report = Reports(<<
                      [parser |-> "QualiMapParser",
                       path |-> report_query.path
                                \o <<"/", "Reports", "/", "bamQC", "/",
                                     report_query.sampleid, "/", "genome_results.txt">>],
                      [parser |-> "PicardMarkDuplicatesParser",
                       path |-> ExpectedMarkDupsDir \o <<"/">>
                                \o report_query.listing[CHOOSE i \in at : TRUE]]>>)
            /\ n = 0 =>
                  report = ParserException("SarekPreprocessingStep",
                      <<"no metrics file for MarkDuplicates found for sample ",
                        report_query.sampleid, " in ">> \o ExpectedMarkDupsDir)
            /\ n >= 2 =>
                  report = ParserException("SarekPreprocessingStep",
                      <<"multiple metrics files for MarkDuplicates found for sample ",
                        report_query.sampleid, " in ">> \o ExpectedMarkDupsDir)
            /\ report.kind = "ParserException" => report.files = <<>>

C7_Witness ==
    /\ report_query.cls = "SarekPreprocessingStep"
    /\ report.kind = "ok"
    /\ Len(report.files) = 2
    /\ Len(report_query.listing) = 3
    /\ <<"c", ".metrics", ".bak">> \in Range(report_query.listing)

====
